---- MODULE Spec2Model ----
(***************************************************************************)
(* A model of the RESP codec of src/src/resp.rs: the recursive parser      *)
(* Resp::parse, the size calculator Resp::binary_size / Resp::ascii_len,   *)
(* the serializer Resp::write / Resp::write_len / get_len_len and the      *)
(* stream adapter RespCodec (decode, encode).                              *)
(*                                                                         *)
(* Bytes are their ASCII codes.  A byte buffer (&[u8], Vec<u8>, BytesMut)  *)
(* is a sequence of bytes.  Option<T> is a sequence of length 0 (None) or  *)
(* 1 (Some).  A Rust panic (slice index out of range, unreachable!(),      *)
(* expect on None, arithmetic overflow in a build with overflow checks,    *)
(* a put into a BytesMut without room) is the result value Panic.          *)
(***************************************************************************)
EXTENDS Integers, Sequences, FiniteSets, TLC

VARIABLES
    overflowChecks, \* build profile: TRUE = overflow checks on (debug), FALSE = wrapping (release)
    input,          \* the bytes the transport will deliver on this connection
    msgLens,        \* lengths of the complete valid message encodings input starts with
    fed,            \* how many bytes of input the transport has appended to src
    src,            \* the decoder's input buffer (BytesMut)
    dst,            \* the encoder's output buffer (BytesMut)
    cap,            \* the capacity of dst: its length plus the room left for put
    out,            \* the messages decode has handed to the caller, in order
    len,            \* the usize argument given to ascii_len / write_len
    last            \* the last call made and what it returned

vars == <<overflowChecks, input, msgLens, fed, src, dst, cap, out, len, last>>

---------------------------------------------------------------------------
(* Bounds *)

MaxPayload == 1     \* payload bytes of a generated scalar or bulk string
MaxElems == 2       \* elements of a generated array
MaxDepth == 1       \* levels of array nesting above a flat array
MaxMsgs == 2        \* messages pipelined in one stream
MaxGarbage == 2     \* length of an arbitrary byte string
MaxChunk == 3       \* bytes the transport appends in one read
MaxDst == 4         \* encode is called again while dst holds, or has room for, at most this
LongPayload == 10   \* payload bytes of a bulk string whose length field has two digits
MaxLenArg == 1200   \* largest argument given to ascii_len / write_len
SmallAlloc == 1000  \* elements the allocator always grants a Vec<Resp>
StackLevels == 1000 \* nested calls of parse the thread's stack always holds

---------------------------------------------------------------------------
(* Program constants *)

RESP_STRING == 43
RESP_INT == 58
RESP_ERROR == 45
RESP_BULK == 36
RESP_ARRAY == 42
BYTE_CR == 13
BYTE_LF == 10

BYTES_CRLF == <<BYTE_CR, BYTE_LF>>
BYTES_NULL_RESP == <<45, 49, BYTE_CR, BYTE_LF>>

\* bytes::BytesMut (bytes 0.4, 64-bit): the capacity of BytesMut::new(), which
\* stores up to 31 bytes inline, and of the test's BytesMut::with_capacity(100).
INLINE_CAP == 31
TEST_CAP == 100

---------------------------------------------------------------------------
(* Option, results *)

None == <<>>
Some(x) == <<x>>
is_some(o) == Len(o) = 1
is_none(o) == Len(o) = 0
unwrap(o) == o[1]

Ok(v) == [tag |-> "Ok", v |-> v]
Err(e) == [tag |-> "Err", err |-> e]
Panic == [tag |-> "Panic"]
\* The process aborts (a failed allocation, a stack overflow): no unwinding,
\* nothing returns.
Abort == [tag |-> "Abort"]

\* A recursive method running as the depth-th nested call on the thread's
\* stack.  The stack holds StackLevels nested calls; whether it holds a
\* deeper one is for the machine to decide (stack size, frame size of the
\* build), and when it does not the process aborts with a stack overflow.
\* `grant` says whether the machine grants, during a call, what it need not:
\* a deeper stack, a large allocation.
stack_overflow(grant, depth) == depth > StackLevels /\ ~grant

\* Rust s[a..b] and s[a..] on a slice; the caller has checked a <= b <= Len(s).
Slice(s, a, b) == SubSeq(s, a + 1, b)
SliceFrom(s, a) == SubSeq(s, a + 1, Len(s))

\* format!("{}", n) for a usize n: the ASCII decimal digits of n.
RECURSIVE fmt_usize(_)
fmt_usize(n) ==
    IF n < 10 THEN <<48 + n>>
    ELSE fmt_usize(n \div 10) \o <<48 + (n % 10)>>

---------------------------------------------------------------------------
(* btoi::btoi::<isize>: an optional sign, then one or more decimal digits,  *)
(* accumulated with checked arithmetic: a value outside isize is an error.  *)
(* The value returned is kept in decimal: `neg` says whether it is below    *)
(* zero and `mag` holds the digits of its magnitude without leading zeros,  *)
(* so every isize has one representation and none is rounded.  What parse   *)
(* does with a count (comparison with -1, the cast to usize, `+ 2`, the     *)
(* comparison with a length, the range 0..count) is computed on the digits. *)

IsDigit(b) == b >= 48 /\ b <= 57

RECURSIVE btou_val(_, _)
btou_val(bs, acc) ==
    IF bs = <<>> THEN acc
    ELSE btou_val(Tail(bs), acc * 10 + (Head(bs) - 48))

\* The digits without leading zeros (one digit at least).
RECURSIVE strip_zeros(_)
strip_zeros(ds) ==
    IF Len(ds) > 1 /\ Head(ds) = 48 THEN strip_zeros(Tail(ds)) ELSE ds

\* a > b for two magnitudes given as digits without leading zeros.
RECURSIVE digits_gt(_, _)
digits_gt(a, b) ==
    IF Len(a) # Len(b) THEN Len(a) > Len(b)
    ELSE IF a = <<>> THEN FALSE
    ELSE IF Head(a) # Head(b) THEN Head(a) > Head(b)
    ELSE digits_gt(Tail(a), Tail(b))

\* isize::MAX = 9223372036854775807 and the magnitude of isize::MIN.
ISIZE_MAX_DIGITS == <<57,50,50,51,51,55,50,48,51,54,56,53,52,55,55,53,56,48,55>>
ISIZE_MIN_DIGITS == <<57,50,50,51,51,55,50,48,51,54,56,53,52,55,55,53,56,48,56>>

OkInt(neg, mag) == [tag |-> "Ok", neg |-> neg, mag |-> mag]

\* count == k for a count btoi returned and a literal k of the code.
int_is(c, k) ==
    IF k < 0 THEN c.neg /\ c.mag = fmt_usize(0 - k)
    ELSE ~c.neg /\ c.mag = fmt_usize(k)

\* n < count for a length n and a count that is not negative.
usize_lt(n, c) == digits_gt(c.mag, fmt_usize(n))

\* count as a length, for a count known to be at most a buffer's length.
as_len(c) == btou_val(c.mag, 0)

\* The digits bs as a magnitude of at most `limit`, negated when neg.
btoi_digits(bs, neg, limit) ==
    IF bs = <<>> THEN Err("ParseInteger")
    ELSE IF \E i \in 1..Len(bs) : ~IsDigit(bs[i]) THEN Err("ParseInteger")
    ELSE LET mag == strip_zeros(bs)
         IN  IF digits_gt(mag, limit) THEN Err("ParseInteger")
             ELSE OkInt(neg /\ mag # <<48>>, mag)

btoi(bs) ==
    IF bs = <<>> THEN Err("ParseInteger")
    ELSE IF bs[1] = 43 THEN btoi_digits(Tail(bs), FALSE, ISIZE_MAX_DIGITS)
    ELSE IF bs[1] = 45 THEN btoi_digits(Tail(bs), TRUE, ISIZE_MIN_DIGITS)
    ELSE btoi_digits(bs, FALSE, ISIZE_MAX_DIGITS)

---------------------------------------------------------------------------
(* Resp *)

Resp(rtype, data, array) == [rtype |-> rtype, data |-> data, array |-> array]

new_plain(rtype, data) == Resp(rtype, data, None)

new_array(array) ==
    LET data == IF is_some(array) THEN Some(fmt_usize(Len(unwrap(array)))) ELSE None
    IN  Resp(RESP_ARRAY, data, array)

is_null(m) ==
    IF m.rtype = RESP_BULK THEN is_none(m.data)
    ELSE IF m.rtype = RESP_ARRAY THEN is_none(m.array)
    ELSE FALSE

IsLineType(t) == t \in {RESP_STRING, RESP_INT, RESP_ERROR}

---------------------------------------------------------------------------
(* Size calculator *)

RECURSIVE ascii_len_loop(_, _)
ascii_len_loop(n, l) ==
    IF n = 0 THEN l
    ELSE IF n < 10 THEN l + 1
    ELSE IF n < 100 THEN l + 2
    ELSE IF n < 1000 THEN l + 3
    ELSE ascii_len_loop(n \div 1000, l + 4)

ascii_len(n) == ascii_len_loop(n, 0)

\* How binary_size ends on m as the depth-th nested call: "Ok" when it
\* returns, "Panic" (expect on None, unreachable!()), "Abort" (stack overflow).
RECURSIVE binary_size_end(_, _, _)
RECURSIVE binary_size_items_end(_, _, _)
binary_size_items_end(items, grant, depth) ==
    IF items = <<>> THEN "Ok"
    ELSE LET e == binary_size_end(Head(items), grant, depth)
         IN  IF e # "Ok" THEN e
             ELSE binary_size_items_end(Tail(items), grant, depth)

binary_size_end(m, grant, depth) ==
    IF stack_overflow(grant, depth) THEN "Abort"
    ELSE IF IsLineType(m.rtype) THEN (IF is_none(m.data) THEN "Panic" ELSE "Ok")
    ELSE IF m.rtype = RESP_BULK THEN "Ok"
    ELSE IF m.rtype = RESP_ARRAY THEN
        IF is_null(m) THEN "Ok"
        ELSE IF is_none(m.data) THEN "Panic"
        ELSE binary_size_items_end(unwrap(m.array), grant, depth + 1)
    ELSE "Panic"

\* The value binary_size returns when it returns.

RECURSIVE binary_size(_)
RECURSIVE binary_size_items(_, _)
binary_size_items(items, size) ==
    IF items = <<>> THEN size
    ELSE binary_size_items(Tail(items), size + binary_size(Head(items)))

binary_size(m) ==
    IF IsLineType(m.rtype) THEN 3 + Len(unwrap(m.data))
    ELSE IF m.rtype = RESP_BULK THEN
        IF is_null(m) THEN 5
        ELSE LET dlen == Len(unwrap(m.data))
             IN  1 + ascii_len(dlen) + 2 + dlen + 2
    ELSE IF is_null(m) THEN 5
    ELSE binary_size_items(unwrap(m.array), 1 + Len(unwrap(m.data)) + 2)

---------------------------------------------------------------------------
(* Parser *)

\* src.splitn(2, |x| *x == BYTE_LF): the 1-based index of the first line feed, 0 if none.
RECURSIVE first_lf(_, _)
first_lf(s, i) ==
    IF i > Len(s) THEN 0
    ELSE IF s[i] = BYTE_LF THEN i
    ELSE first_lf(s, i + 1)

\* The bulk branch once count is known not to be -1 (lines 128-138).  `rest` is
\* iter.next(): None when src holds no line feed.  For count < -1 the cast
\* `count as usize` is 2^64 + count, and `+ 2` overflows only for count = -2:
\* with overflow checks that addition panics; without, size wraps to 0 and
\* `size - 2` wraps to 2^64 - 2, past the end of any slice.  For count < -2
\* size = 2^64 + count + 2 exceeds every data.len().
\* For count >= 0 the test data.len() < count + 2 is made as
\* data.len() < 2 or data.len() - 2 < count, and when it fails count is at
\* most data.len() - 2.
parse_bulk(rtype, count, rest) ==
    IF int_is(count, -2) /\ overflowChecks THEN Panic
    ELSE IF is_none(rest) THEN Err("MoreData")
    ELSE IF int_is(count, -2) THEN Panic
    ELSE IF count.neg THEN Err("MoreData")
    ELSE LET data == unwrap(rest)
         IN  IF Len(data) < 2 \/ usize_lt(Len(data) - 2, count) THEN Err("MoreData")
             ELSE Ok(Resp(rtype, Some(Slice(data, 0, as_len(count))), None))

\* The largest capacity Vec::<Resp>::with_capacity accepts: isize::MAX bytes
\* over the 56 bytes of a Resp (u8, Option<Vec<u8>>, Option<Vec<Resp>>).
CAPACITY_MAX_DIGITS == <<49,54,52,55,48,51,48,55,50,48,56,54,54,57,50,52,50,53>>

\* Vec::with_capacity(count as usize) at line 152.  A negative count cast to
\* usize, or one above the largest capacity, panics with 'capacity overflow'.
\* A request of at most SmallAlloc elements is granted; whether the
\* machine grants a larger one (`grant`) is for the machine to decide, and
\* when it does not the process aborts.
with_capacity(c, grant) ==
    IF c.neg THEN Panic
    ELSE IF digits_gt(c.mag, CAPACITY_MAX_DIGITS) THEN Panic
    ELSE IF usize_lt(SmallAlloc, c) /\ ~grant THEN Abort
    ELSE Ok(<<>>)

RECURSIVE parse_frame(_, _, _)
RECURSIVE parse_items(_, _, _, _, _, _)
\* The loop of lines 154-158 over 0..count: `i` iterations done, `parsed` the
\* offset so far; each call of parse is one frame deeper on the stack.
\* item.binary_size() returns: parse built item with data present, and it
\* nests no deeper below this frame than the parse that has just returned.
parse_items(s, parsed, i, count, items, env) ==
    IF ~usize_lt(i, count) THEN Ok(items)
    ELSE IF parsed > Len(s) THEN Panic
    ELSE LET r == parse_frame(SliceFrom(s, parsed), env.grant, env.depth + 1)
         IN  IF r.tag # "Ok" THEN r
             ELSE parse_items(s, parsed + binary_size(r.v), i + 1, count,
                              Append(items, r.v), env)

\* Resp::parse(src) running as the depth-th nested call of parse.
parse_frame(s, grant, depth) ==
    IF stack_overflow(grant, depth) THEN Abort
    ELSE IF Len(s) = 0 THEN Err("MoreData")
    ELSE
    LET lf == first_lf(s, 1)
        line == IF lf = 0 THEN s ELSE SubSeq(s, 1, lf - 1)
        rest == IF lf = 0 THEN None ELSE Some(SubSeq(s, lf + 1, Len(s)))
        line_size == Len(line) + 1
    IN  IF Len(line) = 0 THEN Panic
        ELSE
        LET rtype == line[1]
        IN  IF ~(IsLineType(rtype) \/ rtype = RESP_BULK \/ rtype = RESP_ARRAY) THEN Panic
            ELSE IF line_size - 2 < 1 THEN Panic
            ELSE
            LET body == Slice(line, 1, line_size - 2)
            IN  IF IsLineType(rtype) THEN Ok(Resp(rtype, Some(body), None))
                ELSE
                LET c == btoi(body)
                IN  IF c.tag # "Ok" THEN c
                    ELSE IF int_is(c, -1) THEN Ok(Resp(rtype, None, None))
                    ELSE IF rtype = RESP_BULK THEN parse_bulk(rtype, c, rest)
                    ELSE LET a == with_capacity(c, grant)
                         IN  IF a.tag # "Ok" THEN a
                             ELSE LET r == parse_items(s, line_size, 0, c, <<>>,
                                                       [grant |-> grant, depth |-> depth])
                                  IN  IF r.tag # "Ok" THEN r
                                      ELSE Ok(Resp(rtype, Some(body), Some(r.v)))

\* Resp::parse(src) called by the codec or a test: the first frame.
parse(s, grant) == parse_frame(s, grant, 1)

---------------------------------------------------------------------------
(* Serializer *)

RECURSIVE get_len_len_loop(_, _)
get_len_len_loop(l, len_len) ==
    IF l < 10 THEN len_len + 1
    ELSE IF l < 100 THEN len_len + 2
    ELSE IF l < 1000 THEN len_len + 3
    ELSE get_len_len_loop(l \div 1000, len_len + 3)

get_len_len(l) == get_len_len_loop(l, 0)

\* The result of write: Ok with the byte count returned, Panic or Abort; dst
\* is the buffer as the call leaves it in each case.
WOk(d, n) == [tag |-> "Ok", dst |-> d, n |-> n]
WPanic(d) == [tag |-> "Panic", dst |-> d]
WAbort(d) == [tag |-> "Abort", dst |-> d]

\* BufMut::put and put_u8 on a BytesMut (bytes 0.4) assert that the bytes fit
\* in the room left, remaining_mut() = capacity - len, and panic when they
\* do not; they never grow the buffer, and write never calls reserve.
put_fits(d, bs, c) == Len(d) + Len(bs) <= c

\* Successive puts of the chunks: the first that does not fit panics and
\* leaves in the buffer what the puts before it appended.
RECURSIVE put_all(_, _, _)
put_all(d, chunks, c) ==
    IF chunks = <<>> THEN [tag |-> "Ok", dst |-> d]
    ELSE IF ~put_fits(d, Head(chunks), c) THEN [tag |-> "Panic", dst |-> d]
    ELSE put_all(d \o Head(chunks), Tail(chunks), c)

\* write_len(dst, len): the buffer after the call and the count returned.
write_len(d, l, c) ==
    LET p == put_all(d, <<fmt_usize(l)>>, c)
    IN  IF p.tag # "Ok" THEN WPanic(p.dst) ELSE WOk(p.dst, get_len_len(l))

RECURSIVE write_frame(_, _, _, _, _)
RECURSIVE write_items(_, _, _, _, _)
\* The loop of lines 207-209; each call of write is one frame deeper.
write_items(items, d, c, size, env) ==
    IF items = <<>> THEN WOk(d, size)
    ELSE LET r == write_frame(Head(items), d, c, env.grant, env.depth + 1)
         IN  IF r.tag # "Ok" THEN r
             ELSE write_items(Tail(items), r.dst, c, size + r.n, env)

\* Resp::write(dst) on m running as the depth-th nested call of write; c is
\* the capacity of dst.
write_frame(m, d, c, grant, depth) ==
    IF stack_overflow(grant, depth) THEN WAbort(d)
    ELSE IF ~(IsLineType(m.rtype) \/ m.rtype = RESP_BULK \/ m.rtype = RESP_ARRAY) THEN WPanic(d)
    ELSE
    LET p1 == put_all(d, <<<<m.rtype>>>>, c)
    IN  IF p1.tag # "Ok" THEN WPanic(p1.dst)
        ELSE IF IsLineType(m.rtype) THEN
            IF is_none(m.data) THEN WPanic(p1.dst)
            ELSE LET data == unwrap(m.data)
                     p2 == put_all(p1.dst, <<data, BYTES_CRLF>>, c)
                 IN  IF p2.tag # "Ok" THEN WPanic(p2.dst)
                     ELSE WOk(p2.dst, 1 + 2 + Len(data))
        ELSE IF is_null(m) THEN
            LET p2 == put_all(p1.dst, <<BYTES_NULL_RESP>>, c)
            IN  IF p2.tag # "Ok" THEN WPanic(p2.dst) ELSE WOk(p2.dst, 5)
        ELSE IF m.rtype = RESP_BULK THEN
            LET data == unwrap(m.data)
                data_len == Len(data)
                wl == write_len(p1.dst, data_len, c)
            IN  IF wl.tag # "Ok" THEN wl
                ELSE LET p2 == put_all(wl.dst, <<BYTES_CRLF, data, BYTES_CRLF>>, c)
                     IN  IF p2.tag # "Ok" THEN WPanic(p2.dst)
                         ELSE WOk(p2.dst, 1 + wl.n + 2 + data_len + 2)
        ELSE IF is_none(m.data) THEN WPanic(p1.dst)
        ELSE LET data == unwrap(m.data)
                 p2 == put_all(p1.dst, <<data, BYTES_CRLF>>, c)
             IN  IF p2.tag # "Ok" THEN WPanic(p2.dst)
                 ELSE write_items(unwrap(m.array), p2.dst, c, 1 + Len(data) + 2,
                                  [grant |-> grant, depth |-> depth])

\* Resp::write(dst) called by the codec or a test: the first frame.
write(m, d, c, grant) == write_frame(m, d, c, grant, 1)

---------------------------------------------------------------------------
(* Stream codec adapter *)

\* A decode that discards the buffer when parse does not return a message.
decode_discarding(s, grant) ==
    LET p == parse(s, grant)
    IN  IF p.tag \in {"Panic", "Abort"} THEN [parsed |-> p, ret |-> p, src |-> s]
        ELSE IF p.tag = "Err" THEN
            IF p.err = "MoreData" THEN [parsed |-> p, ret |-> Ok(None), src |-> <<>>]
            ELSE [parsed |-> p, ret |-> p, src |-> <<>>]
        ELSE LET bsize == binary_size(p.v)
             IN  IF bsize > Len(s) THEN [parsed |-> p, ret |-> Panic, src |-> s]
                 ELSE [parsed |-> p, ret |-> Ok(Some(p.v)), src |-> SliceFrom(s, bsize)]

\* RespCodec::decode on buffer s: what parse returned, what decode returns, and
\* the buffer afterwards.  BytesMut::advance(cnt) panics when cnt > len.
decode(s, grant) ==
    LET p == parse(s, grant)
    IN  IF p.tag \in {"Panic", "Abort"} THEN [parsed |-> p, ret |-> p, src |-> s]
        ELSE IF p.tag = "Err" THEN
            IF p.err = "MoreData" THEN [parsed |-> p, ret |-> Ok(None), src |-> s]
            ELSE [parsed |-> p, ret |-> p, src |-> s]
        ELSE IF binary_size_end(p.v, grant, 1) = "Panic" THEN [parsed |-> p, ret |-> Panic, src |-> s]
        ELSE IF binary_size_end(p.v, grant, 1) = "Abort" THEN [parsed |-> p, ret |-> Abort, src |-> s]
        ELSE LET bsize == binary_size(p.v)
             IN  IF bsize > Len(s) THEN [parsed |-> p, ret |-> Panic, src |-> s]
                 ELSE [parsed |-> p, ret |-> Ok(Some(p.v)), src |-> SliceFrom(s, bsize)]

\* RespCodec::encode: the byte count write returns is only traced.
encode(item, d, c, grant) ==
    LET r == write(item, d, c, grant)
    IN  IF r.tag = "Ok" THEN [ret |-> Ok(<<>>), dst |-> r.dst]
        ELSE IF r.tag = "Abort" THEN [ret |-> Abort, dst |-> r.dst]
        ELSE [ret |-> Panic, dst |-> r.dst]

---------------------------------------------------------------------------
(* Inputs: the wire grammar, one marker byte per kind                      *)
(*   +<payload>\r\n  -<payload>\r\n  :<decimal>\r\n                        *)
(*   $<len>\r\n<len bytes>\r\n   $-1\r\n   *<count>\r\n<count messages>    *)
(*   *-1\r\n                                                               *)

RECURSIVE Concat(_)
Concat(ss) == IF ss = <<>> THEN <<>> ELSE Head(ss) \o Concat(Tail(ss))

SeqsUpTo(S, n) == UNION {[1..k -> S] : k \in 0..n}

Payload(n) == [i \in 1..n |-> 97]

LineWire(t, p) == <<t>> \o p \o BYTES_CRLF
BulkWire(p) == <<RESP_BULK>> \o fmt_usize(Len(p)) \o BYTES_CRLF \o p \o BYTES_CRLF
NullWire(t) == <<t>> \o BYTES_NULL_RESP
ArrayWire(es) == <<RESP_ARRAY>> \o fmt_usize(Len(es)) \o BYTES_CRLF \o Concat(es)

LinePayloads == {Payload(n) : n \in 0..MaxPayload}
BulkPayloads == LinePayloads \cup {<<BYTE_LF>>}

LeafWires ==
    {LineWire(t, p) : t \in {RESP_STRING, RESP_ERROR, RESP_INT}, p \in LinePayloads}
    \cup {BulkWire(p) : p \in BulkPayloads}
    \cup {NullWire(RESP_BULK)}

\* The elements of generated arrays: an empty bulk, a bulk, a simple string, a null bulk.
ElemWires ==
    {BulkWire(<<>>), BulkWire(<<97>>), LineWire(RESP_STRING, <<97>>), NullWire(RESP_BULK)}

FlatArrayWires ==
    {ArrayWire(es) : es \in SeqsUpTo(ElemWires, MaxElems)} \cup {NullWire(RESP_ARRAY)}

RECURSIVE NestedWires(_)
NestedWires(d) ==
    IF d = 0 THEN FlatArrayWires
    ELSE LET inner == NestedWires(d - 1)
         IN  {ArrayWire(<<x>>) : x \in inner}
             \cup {ArrayWire(<<x, LineWire(RESP_STRING, <<97>>)>>) : x \in inner}

ArrayWires == UNION {NestedWires(d) : d \in 0..MaxDepth}

ValidWires == LeafWires \cup ArrayWires

\* Every proper prefix of a valid encoding.
Prefixes(W) == UNION {{SubSeq(w, 1, k) : k \in 0..(Len(w) - 1)} : w \in W}

\* Arbitrary bytes: markers, a non-marker, sign, digits, CR, LF.
GarbageBytes == {43, 36, 42, 35, 45, 49, 50, BYTE_CR, BYTE_LF}
Garbage == SeqsUpTo(GarbageBytes, MaxGarbage)

\* Bulk and array headers with every kind of length field.
LengthFields == {<<45, 50>>, <<45, 51>>, <<45, 49>>, <<48>>, <<49>>, <<43, 49>>,
                 <<45>>, <<97>>, <<>>,
                 <<50,49,52,55,52,56,51,54,52,55>>,   \* 2147483647
                 <<57,57,57,57,57,57,57,57,57,57,57,57,57,57,57,57,57,57>>, \* 999999999999999999
                 ISIZE_MAX_DIGITS, ISIZE_MIN_DIGITS, <<45>> \o ISIZE_MIN_DIGITS}
Headers == {<<t>> \o f \o e : t \in {RESP_BULK, RESP_ARRAY}, f \in LengthFields,
            e \in {BYTES_CRLF, BYTES_CRLF \o BYTES_CRLF, <<BYTE_CR>>}}

\* An incomplete message following the complete ones of a stream.
Tails == {<<>>, <<RESP_STRING, 97>>, <<RESP_BULK, 49, BYTE_CR, BYTE_LF>>}

Case(bytes, lens) == [bytes |-> bytes, lens |-> lens]

\* One call of parse on a buffer: a valid encoding alone or followed by more
\* bytes, a proper prefix of one, a header, or arbitrary bytes.
ParseCases ==
    {Case(w \o t, <<Len(w)>>) : w \in ValidWires, t \in Tails \cup {LineWire(RESP_STRING, <<97>>)}}
    \cup {Case(b, <<>>) : b \in Prefixes(ValidWires) \cup Headers \cup Garbage}

\* A stream: a message followed by up to MaxMsgs - 1 more and an incomplete
\* tail, or a header, or arbitrary bytes.
StreamWires == LeafWires \cup FlatArrayWires
FollowWires == {LineWire(RESP_STRING, <<97>>), BulkWire(<<>>)}
\* Partial delivery already leaves every prefix of a message in the buffer;
\* the tail adds a message that never completes.
StreamTails == {<<>>, <<RESP_BULK, 49, BYTE_CR, BYTE_LF>>}
Pipelines == {<<w>> \o f : w \in StreamWires, f \in SeqsUpTo(FollowWires, MaxMsgs - 1)}
StreamCases ==
    {Case(Concat(ws) \o t, [i \in 1..Len(ws) |-> Len(ws[i])]) : ws \in Pipelines, t \in StreamTails}
    \cup {Case(b, <<>>) : b \in Headers \cup Garbage}

\* Messages built by the constructors, for the encoder.
LeafMsgs ==
    {new_plain(t, Some(p)) : t \in {RESP_STRING, RESP_ERROR, RESP_INT, RESP_BULK},
                             p \in LinePayloads}
    \cup {new_plain(RESP_BULK, None)}
ElemMsgs ==
    {new_plain(RESP_BULK, Some(<<>>)), new_plain(RESP_BULK, Some(<<97>>)),
     new_plain(RESP_STRING, Some(<<97>>)), new_plain(RESP_BULK, None)}
FlatArrayMsgs ==
    {new_array(Some(es)) : es \in SeqsUpTo(ElemMsgs, MaxElems)} \cup {new_array(None)}
RECURSIVE NestedMsgs(_)
NestedMsgs(d) ==
    IF d = 0 THEN FlatArrayMsgs
    ELSE LET inner == NestedMsgs(d - 1)
         IN  {new_array(Some(<<x>>)) : x \in inner}
             \cup {new_array(Some(<<x, new_plain(RESP_STRING, Some(<<97>>))>>)) : x \in inner}
LongBulkMsg == new_plain(RESP_BULK, Some([i \in 1..LongPayload |-> 97]))
WellFormedMsgs == LeafMsgs \cup {LongBulkMsg} \cup UNION {NestedMsgs(d) : d \in 0..MaxDepth}

\* What an output buffer holds when encode is called: the n bytes of earlier
\* output that are still to be sent.
EarlierOutput == [i \in 1..(4 * INLINE_CAP) |-> <<RESP_INT, 49, BYTE_CR, BYTE_LF>>[((i - 1) % 4) + 1]]
Unsent(n) == SubSeq(EarlierOutput, Len(EarlierOutput) - n + 1, Len(EarlierOutput))
\* A scalar without payload: the caller broke new_plain's contract.
EncodeMsgs == WellFormedMsgs \cup {new_plain(RESP_STRING, None)}

---------------------------------------------------------------------------
(* State machines *)

Idle == [op |-> "idle"]
Halted == last.op \in {"decode", "encode"} /\ last.ret.tag \in {"Panic", "Abort"}

\* -- Spec: one connection's decode side --------------------------------

Init ==
    /\ overflowChecks \in BOOLEAN
    /\ \E c \in StreamCases : input = c.bytes /\ msgLens = c.lens
    /\ fed = 0
    /\ src = <<>>
    /\ dst = <<>>
    /\ cap = INLINE_CAP
    /\ out = <<>>
    /\ len = 0
    /\ last = Idle

\* The transport appends the next k bytes to the input buffer.
Receive(k) ==
    /\ ~Halted
    /\ fed + k <= Len(input)
    /\ src' = src \o SubSeq(input, fed + 1, fed + k)
    /\ fed' = fed + k
    /\ last' = [op |-> "receive"]
    /\ UNCHANGED <<overflowChecks, input, msgLens, dst, cap, out, len>>

\* RespCodec::decode on the input buffer.
Decode ==
    /\ ~Halted
    /\ \E grant \in BOOLEAN :
       LET r == decode(src, grant)
       IN  /\ src' = r.src
           /\ out' = IF r.ret.tag = "Ok" /\ is_some(r.ret.v)
                     THEN Append(out, unwrap(r.ret.v)) ELSE out
           /\ last' = [op |-> "decode", before |-> src, parsed |-> r.parsed, ret |-> r.ret]
    /\ UNCHANGED <<overflowChecks, input, msgLens, fed, dst, cap, len>>

Next ==
    \/ \E k \in 1..MaxChunk : Receive(k)
    \/ Decode

Spec == Init /\ [][Next]_vars

\* -- SpecParse: Resp::parse called once on a buffer, then the size
\* -- calculator or the serializer on the message it returned ------------

InitParse ==
    /\ overflowChecks \in BOOLEAN
    /\ \E c \in ParseCases : input = c.bytes /\ msgLens = c.lens
    /\ fed = Len(input)
    /\ src = input
    /\ dst = <<>>
    /\ cap = TEST_CAP
    /\ out = <<>>
    /\ len = 0
    /\ last = Idle

ParseCall ==
    /\ last.op = "idle"
    /\ \E grant \in BOOLEAN : last' = [op |-> "parse", ret |-> parse(src, grant)]
    /\ UNCHANGED <<overflowChecks, input, msgLens, fed, src, dst, cap, out, len>>

\* resp.binary_size() on the parsed message.
SizeCall ==
    /\ last.op = "parse"
    /\ last.ret.tag = "Ok"
    /\ \E grant \in BOOLEAN :
       LET e == binary_size_end(last.ret.v, grant, 1)
       IN  last' = [op |-> "binary_size", msg |-> last.ret.v,
                    ret |-> IF e = "Panic" THEN Panic
                            ELSE IF e = "Abort" THEN Abort
                            ELSE Ok(binary_size(last.ret.v))]
    /\ UNCHANGED <<overflowChecks, input, msgLens, fed, src, dst, cap, out, len>>

\* resp.write(&mut buf) on the parsed message, buf empty (lines 61-68).
WriteBack ==
    /\ last.op = "parse"
    /\ last.ret.tag = "Ok"
    /\ \E grant \in BOOLEAN :
       LET r == write(last.ret.v, dst, cap, grant)
       IN  /\ dst' = r.dst
           /\ last' = [op |-> "write", msg |-> last.ret.v,
                       ret |-> IF r.tag = "Ok" THEN Ok(r.n)
                               ELSE IF r.tag = "Abort" THEN Abort ELSE Panic]
    /\ UNCHANGED <<overflowChecks, input, msgLens, fed, src, cap, out, len>>

NextParse == ParseCall \/ SizeCall \/ WriteBack

SpecParse == InitParse /\ [][NextParse]_vars

\* -- SpecEncode: one connection's encode side ----------------------------

InitEncode ==
    /\ overflowChecks \in BOOLEAN
    /\ input = <<>>
    /\ msgLens = <<>>
    /\ fed = 0
    /\ src = <<>>
    /\ cap = INLINE_CAP
    /\ \E n \in 0..cap : dst = Unsent(n)
    /\ out = <<>>
    /\ len = 0
    /\ last = Idle

\* RespCodec::encode(item, dst); `size` is the count write returned (traced).
Encode(item) ==
    /\ ~Halted
    /\ last.op = "idle" \/ Len(dst) < MaxDst \/ cap - Len(dst) <= MaxDst
    /\ \E grant \in BOOLEAN :
       LET r == write(item, dst, cap, grant)
       IN  /\ dst' = encode(item, dst, cap, grant).dst
           /\ last' = [op |-> "encode", msg |-> item, before |-> dst,
                       ret |-> encode(item, dst, cap, grant).ret,
                       size |-> IF r.tag = "Ok" THEN Some(r.n) ELSE None]
    /\ UNCHANGED <<overflowChecks, input, msgLens, fed, src, cap, out, len>>

NextEncode == \E item \in EncodeMsgs : Encode(item)

SpecEncode == InitEncode /\ [][NextEncode]_vars

\* -- SpecDigits: the two digit counters on the same length ---------------

InitDigits ==
    /\ overflowChecks \in BOOLEAN
    /\ input = <<>>
    /\ msgLens = <<>>
    /\ fed = 0
    /\ src = <<>>
    /\ dst = <<>>
    /\ cap = INLINE_CAP
    /\ out = <<>>
    /\ len \in 0..MaxLenArg
    /\ last = Idle

\* Resp::ascii_len(len), as binary_size calls it.
AsciiLenCall ==
    /\ last.op = "idle"
    /\ last' = [op |-> "ascii_len", ret |-> ascii_len(len)]
    /\ UNCHANGED <<overflowChecks, input, msgLens, fed, src, dst, cap, out, len>>

\* Resp::write_len(dst, len), as write calls it, on an empty buffer.
WriteLenCall ==
    /\ last.op = "ascii_len"
    /\ LET r == write_len(dst, len, cap)
       IN  /\ dst' = r.dst
           /\ last' = IF r.tag = "Ok"
                       THEN [op |-> "write_len", ascii |-> last.ret, ret |-> r.n]
                       ELSE [op |-> "write_len", ascii |-> last.ret, ret |-> Panic]
    /\ UNCHANGED <<overflowChecks, input, msgLens, fed, src, cap, out, len>>

NextDigits == AsciiLenCall \/ WriteLenCall

SpecDigits == InitDigits /\ [][NextDigits]_vars

---------------------------------------------------------------------------
(* Properties *)

IsMarker(b) == IsLineType(b) \/ b = RESP_BULK \/ b = RESP_ARRAY

\* The input is a single valid encoding and nothing else.
SingleMessage == Len(msgLens) = 1 /\ Len(input) = msgLens[1]

\* The offset in input at which message i + 1 begins.
RECURSIVE Offset(_)
Offset(i) == IF i = 0 THEN 0 ELSE Offset(i - 1) + msgLens[i]

\* The i-th encoding of the stream.
Segment(i) == SubSeq(input, Offset(i - 1) + 1, Offset(i))

\* The length field of a bulk or array header whose line is terminated, if any.
HasHeader(s) ==
    /\ Len(s) >= 1
    /\ s[1] \in {RESP_BULK, RESP_ARRAY}
    /\ first_lf(s, 1) >= 3
HeaderCount(s) == btoi(SubSeq(s, 2, first_lf(s, 1) - 2))

\* C1: when parse succeeds on a buffer that starts with a valid encoding,
\* binary_size of the message it returned is the length of that encoding,
\* the offset at which the next message begins.
C1_SizeIsConsumed ==
    (last.op = "binary_size" /\ msgLens # <<>>) => last.ret = Ok(msgLens[1])

\* C2: on a buffer holding exactly one valid encoding b, parse succeeds and
\* write of its result into an empty buffer produces exactly b.
C2_RoundTrip ==
    SingleMessage =>
        /\ (last.op = "parse" => last.ret.tag = "Ok")
        /\ (last.op = "write" => last.ret.tag = "Ok" /\ dst = input)

\* C3: a single valid encoding b delivered in chunks: decode returns Ok(None)
\* while part of b is still to come, and once all of b is in the buffer it
\* returns the message parse(b) returns.
C3_Incremental ==
    (SingleMessage /\ last.op = "decode") =>
        IF fed < Len(input) THEN last.ret = Ok(None)
        ELSE last.before = input =>
                /\ parse(input, TRUE).tag = "Ok"
                /\ last.ret = Ok(Some(parse(input, TRUE).v))

\* The buffers C4 names as not yet holding a complete logical unit.
NoLineFeed(s) == first_lf(s, 1) = 0
BulkTooShort(s) ==
    /\ HasHeader(s) /\ s[1] = RESP_BULK
    /\ HeaderCount(s).tag = "Ok" /\ ~HeaderCount(s).neg
    /\ LET avail == Len(s) - first_lf(s, 1)
       IN  avail < 2 \/ usize_lt(avail - 2, HeaderCount(s))
ArrayElementMissing(s) ==
    /\ HasHeader(s) /\ s[1] = RESP_ARRAY
    /\ HeaderCount(s).tag = "Ok" /\ ~HeaderCount(s).neg
    /\ usize_lt(0, HeaderCount(s))
    /\ ~usize_lt(SmallAlloc, HeaderCount(s))
    /\ Len(s) = first_lf(s, 1)

\* C4: parse fails with MoreData on an empty buffer, on a buffer that starts
\* with a marker and holds no line feed, on a bulk string shorter than its declared length plus terminator,
\* and on an array whose next element is not there yet.
C4_NeedMoreData ==
    (last.op = "parse"
        /\ (input = <<>> \/ (IsMarker(input[1]) /\ NoLineFeed(input)) \/ BulkTooShort(input)
            \/ ArrayElementMissing(input)))
    => last.ret = Err("MoreData")

\* C5: on a non-empty buffer whose first byte is none of the five markers,
\* parse returns the fatal error UnknownMessageKind; it does not panic.
C5_UnknownKindIsError ==
    (last.op = "parse" /\ input # <<>> /\ ~IsMarker(input[1]))
    => last.ret = Err("UnknownMessageKind")

\* C6: for the same length n, ascii_len(n), the count write_len returns
\* (get_len_len(n)) and the number of digits write_len wrote are equal.
C6_DigitCountsAgree ==
    last.op = "write_len" => (last.ascii = last.ret /\ last.ret = Len(dst))

\* C7: a bulk or array header with a negative length other than -1 makes
\* parse return the malformed-length error; -1 gives the null value.
C7_NegativeLength ==
    (last.op = "parse" /\ HasHeader(input) /\ HeaderCount(input).tag = "Ok")
    => /\ (HeaderCount(input).neg /\ ~int_is(HeaderCount(input), -1))
             => last.ret = Err("ParseInteger")
       /\ int_is(HeaderCount(input), -1) => last.ret = Ok(Resp(input[1], None, None))

\* C8: on a stream of valid encodings m1..mk (and an incomplete tail), a
\* decode call made while the buffer holds all of the next message returns
\* it; the i-th message returned is mi, and the call leaves in the buffer
\* exactly the delivered bytes that follow mi.
C8_Pipelined ==
    (msgLens # <<>> /\ last.op = "decode") =>
        LET got == last.ret.tag = "Ok" /\ is_some(last.ret.v)
            i == Len(out)
        IN  /\ got => /\ i <= Len(msgLens)
                      /\ parse(Segment(i), TRUE).tag = "Ok"
                      /\ out[i] = parse(Segment(i), TRUE).v
                      /\ src = SubSeq(input, Offset(i) + 1, fed)
            /\ (i < Len(msgLens) /\ fed >= Offset(i + 1)) => got

\* C9: write on a well-formed message only appends: the old contents of dst
\* are a prefix of the new, the count returned is the number of bytes
\* appended, and a null bulk or null array appends 5 bytes.
C9_WriteAppends ==
    (last.op = "encode" /\ last.msg \in WellFormedMsgs) =>
        /\ last.ret.tag = "Ok"
        /\ is_some(last.size)
        /\ Len(dst) >= Len(last.before)
        /\ SubSeq(dst, 1, Len(last.before)) = last.before
        /\ unwrap(last.size) = Len(dst) - Len(last.before)
        /\ is_null(last.msg) => unwrap(last.size) = 5

\* C10: decode acts on what parse returns for the buffer: when parse
\* signals MoreData, decode returns Ok(None)
\* and leaves the buffer as it was; when parse returns a fatal error, decode
\* returns that error and leaves the buffer as it was; the buffer changes
\* only when decode returns a message.
C10_DecodeFrame ==
    last.op = "decode" =>
        LET p == last.parsed
        IN  /\ p \in {parse(last.before, g) : g \in BOOLEAN}
            /\ p = Err("MoreData") => (last.ret = Ok(None) /\ src = last.before)
            /\ (p.tag = "Err" /\ p # Err("MoreData")) => (last.ret = p /\ src = last.before)
            /\ src # last.before =>
                  /\ last.ret.tag = "Ok" /\ is_some(last.ret.v)
                  /\ Len(src) < Len(last.before)

\* Witness of C10: after a message was decoded and removed, decode on the
\* non-empty rest of the buffer found it incomplete and left it in place.
C10_Witness ==
    /\ last.op = "decode"
    /\ out # <<>>
    /\ last.before # <<>>
    /\ last.parsed = Err("MoreData")
    /\ last.ret = Ok(None)
    /\ src = last.before

====
